---- MODULE Spec2Model ----
(***************************************************************************)
(* Ledger transfer engine of the modular banking system.                   *)
(*                                                                         *)
(* services/transaction_services.py  process_fund_transfer,                *)
(*                                   _get_daily_tracker                    *)
(* services/audit_services.py        create_audit_log                      *)
(* services/loan_services.py         review_loan_application               *)
(* utility/database.py               engine (READ COMMITTED), get_db       *)
(*                                                                         *)
(* Money is counted in cents (NUMERIC(15,2)); a request amount is counted  *)
(* in mills so that the quantize of line 45 has something to round.        *)
(* Every request runs in its own Session (get_db).  The database runs at   *)
(* READ COMMITTED: a SELECT sees what is committed when it runs, the ORM   *)
(* keeps what it read in the session and writes absolute values back at    *)
(* flush, and all the writes of a session become visible at its COMMIT.    *)
(***************************************************************************)
EXTENDS Integers, FiniteSets, Sequences, TLC

\* ------------------------------------------------------------------ bounds
MaxCalls == 2
MaxDay == 2

\* the request slots: each request is served on a Session of its own (get_db)
Sessions == {1, 2}

\* --------------------------------------------------------- program constants
\* DAILY_TRANSFER_LIMIT = Decimal('50000.00'), in cents
DAILY_TRANSFER_LIMIT == 5000000

\* ------------------------------------------------------------- fixed tables
AccountIds == {"a1", "a2", "a3"}
Customers == {"c1", "c2"}
NoId == "none"

\* Account.customer_id (nullable=False, never updated by the engine)
customer_id_of(a) == IF a = "a2" THEN "c2" ELSE "c1"

\* Account.account_number (unique, nullable=False)
account_number_of(a) == CASE a = "a1" -> "n1" [] a = "a2" -> "n2" [] OTHER -> "n3"

\* balances the accounts were opened with, in cents
InitialBalance(a) == CASE a = "a1" -> 6000000 [] a = "a2" -> 3000000 [] OTHER -> 1000000

\* inputs of a request: account numbers (n9 belongs to no account) and amounts
\* in mills (25000.00, 30000.00, and 0 which the request model refuses)
RequestNumbers == {"n1", "n2", "n3", "n9"}
RequestAmounts == {25000000, 30000000, 0}

\* the requests tried: transfers by the owner of the source account between
\* existing accounts (from the richest to each other account and to itself,
\* from the second to the poorest and back), and one request for each way of
\* being refused before the tracker is read
Requests ==
    {r \in [customer_id : Customers, source_account_number : RequestNumbers,
            target_account_number : RequestNumbers, amount : RequestAmounts] :
        \/ /\ r.amount > 0
           /\ <<r.customer_id, r.source_account_number, r.target_account_number>> \in
                 {<<"c1", "n1", "n2">>, <<"c1", "n1", "n3">>, <<"c2", "n2", "n3">>,
                  <<"c1", "n1", "n1">>}
        \/ /\ r.amount = 25000000
           /\ <<r.customer_id, r.source_account_number, r.target_account_number>> \in
                 {<<"c1", "n3", "n2">>,
                  <<"c2", "n1", "n2">>, <<"c1", "n9", "n1">>, <<"c1", "n1", "n9">>,
                  <<"c2", "n1", "n9">>, <<"c2", "n9", "n9">>}
        \/ /\ r.amount = 0
           /\ <<r.customer_id, r.source_account_number, r.target_account_number>> =
                 <<"c1", "n1", "n2">>}

LoanIds == {"l1"}
RequestLoanIds == {"l1", "l9"}
\* Loan.customer_id and Loan.loan_amount of the one loan application
loan_customer_id(l) == "c2"
loan_amount_of(l) == 2000000

VARIABLES
    current_balance,   \* Account.current_balance, committed, per account id
    trackers,          \* Daily_Limit_Tracker rows, committed
    transactions,      \* Transaction rows, committed
    audit_log,         \* Audit_Log rows, committed
    loan_status,       \* Loan.loan_status, committed
    today,             \* date.today()
    ncalls,            \* requests received so far
    pc,                \* where each session's request stands
    req,               \* the request a session serves
    amount,            \* local amount (line 45)
    txn_date,          \* date the session's database transaction began (now())
    source_account,    \* ORM object read at line 47
    target_account,    \* ORM object read at line 48
    tracker,           \* ORM object of _get_daily_tracker
    new_transaction_id,\* line 79
    loan,              \* ORM object read at loan_services line 132
    account,           \* ORM object read at loan_services line 155
    result             \* what the caller receives

dbVars == <<current_balance, trackers, transactions, audit_log, loan_status>>
envVars == <<today, ncalls>>
xferVars == <<amount, txn_date, source_account, target_account, tracker,
              new_transaction_id>>
loanVars == <<loan, account>>
vars == <<dbVars, envVars, pc, req, xferVars, loanVars, result>>

\* ------------------------------------------------------------------ helpers
NoRequest == [kind |-> "none"]
NoAccount == [account_id |-> NoId, customer_id |-> NoId, current_balance |-> 0]
NoTracker == [account_id |-> NoId, transaction_date |-> 0, transacted_amount |-> 0,
              pending |-> FALSE]
NoLoan == [loan_id |-> NoId, loan_status |-> "none"]
NoResult == [status |-> 0, detail |-> "none", transaction_id |-> 0]

Response(code, detail) == [status |-> code, detail |-> detail, transaction_id |-> 0]

RECURSIVE SumAmounts(_)
SumAmounts(rows) ==
    IF rows = {} THEN 0
    ELSE LET r == CHOOSE x \in rows : TRUE
         IN r.amount + SumAmounts(rows \ {r})

\* amount.quantize(Decimal('.01'), rounding=ROUND_HALF_UP): mills to cents
Quantize(m) == IF m >= 0 THEN (m + 5) \div 10 ELSE 0 - ((5 - m) \div 10)

\* fault seeded for C15: the amount field with gt=Decimal(0) alone
ValidAmount_PositiveOnly(m) == m > 0

\* TransactionRequest.amount: gt=Decimal(0), decimal_places=2
ValidAmount(m) == m > 0 /\ m % 10 = 0

\* db.query(Account).filter(Account.account_number == n).first()
QueryAccountByNumber(n) ==
    LET found == {a \in AccountIds : account_number_of(a) = n}
    IN IF found = {} THEN NoAccount
       ELSE LET a == CHOOSE x \in found : TRUE
            IN [account_id |-> a, customer_id |-> customer_id_of(a),
                current_balance |-> current_balance[a]]

\* the committed tracker rows of (account, date)
TrackerRows(a, d) == {t \in trackers : t.account_id = a /\ t.transaction_date = d}

\* a tracker row another session has inserted (flushed) and not yet committed
PendingInsertBy(s, a, d) ==
    /\ tracker[s].pending
    /\ tracker[s].account_id = a
    /\ tracker[s].transaction_date = d

\* fault seeded for C6: the checks without the balance check of lines 69-71
CheckTransfer_NoBalanceCheck(transacted, balance, amt) ==
    IF transacted + amt > DAILY_TRANSFER_LIMIT
    THEN Response(403, "Exceeding global daily transaction limit")
    ELSE NoResult

\* fault seeded for C7: the limit check on the amount alone, not on the
\* running total of line 60
CheckTransfer_LimitOnAmountOnly(transacted, balance, amt) ==
    IF amt > DAILY_TRANSFER_LIMIT
    THEN Response(403, "Exceeding global daily transaction limit")
    ELSE IF balance < amt
         THEN Response(400, "Insufficient funds in source account.")
         ELSE NoResult

\* fault seeded for C13: the limit check of line 62 with >= for >
CheckTransfer_LimitInclusive(transacted, balance, amt) ==
    IF transacted + amt >= DAILY_TRANSFER_LIMIT
    THEN Response(403, "Exceeding global daily transaction limit")
    ELSE IF balance < amt
         THEN Response(400, "Insufficient funds in source account.")
         ELSE NoResult

\* fault seeded for C14: the balance check of line 69 with <= for <
CheckTransfer_BalanceInclusive(transacted, balance, amt) ==
    IF transacted + amt > DAILY_TRANSFER_LIMIT
    THEN Response(403, "Exceeding global daily transaction limit")
    ELSE IF balance <= amt
         THEN Response(400, "Insufficient funds in source account.")
         ELSE NoResult

\* fault seeded for C17: the balance check of line 69 before the limit check
\* of line 62
CheckTransfer_BalanceFirst(transacted, balance, amt) ==
    IF balance < amt
    THEN Response(400, "Insufficient funds in source account.")
    ELSE IF transacted + amt > DAILY_TRANSFER_LIMIT
         THEN Response(403, "Exceeding global daily transaction limit")
         ELSE NoResult

\* lines 60-71: the limit check, then the balance check
CheckTransfer(transacted, balance, amt) ==
    IF transacted + amt > DAILY_TRANSFER_LIMIT
    THEN Response(403, "Exceeding global daily transaction limit")
    ELSE IF balance < amt
         THEN Response(400, "Insufficient funds in source account.")
         ELSE NoResult

TypeOK ==
    /\ current_balance \in [AccountIds -> Int]
    /\ today \in 1..MaxDay
    /\ ncalls \in 0..MaxCalls
    /\ pc \in [Sessions -> {"idle", "lookup_target", "get_tracker",
                            "flush_tracker", "apply", "record_failed",
                            "loan_account", "loan_commit",
                            "balance_account", "balance_usage",
                            "validate_user", "done"}]

\* the ledger of a day on which no transfer has been made yet
FreshLedger ==
    /\ current_balance = [a \in AccountIds |-> InitialBalance(a)]
    /\ trackers = {}
    /\ transactions = {}
    /\ audit_log = {}

\* the ledger after one transfer of 25000.00 from a1 to a3 made earlier today
\* (the writes of process_fund_transfer lines 74-98 on the fresh ledger)
EarlierTransfer ==
    [transaction_id |-> 1, source_account_id |-> "a1", target_account_id |-> "a3",
     amount |-> 2500000, transaction_type |-> "Transfer", status |-> "Success",
     date |-> 1]

UsedLedger ==
    /\ current_balance = [a \in AccountIds |->
                            CASE a = "a1" -> InitialBalance(a) - EarlierTransfer.amount
                              [] a = "a3" -> InitialBalance(a) + EarlierTransfer.amount
                              [] OTHER -> InitialBalance(a)]
    /\ trackers = {[account_id |-> "a1", transaction_date |-> 1,
                    transacted_amount |-> EarlierTransfer.amount]}
    /\ transactions = {EarlierTransfer}
    /\ audit_log = {[log_id |-> 1, user_id |-> "c1", action |-> "Fund Transfer SUCCESS",
                     txn_id |-> 1]}

Sessionless ==
    /\ loan_status = [l \in LoanIds |-> "Pending"]
    /\ today = 1
    /\ ncalls = 0
    /\ pc = [s \in Sessions |-> "idle"]
    /\ req = [s \in Sessions |-> NoRequest]
    /\ amount = [s \in Sessions |-> 0]
    /\ txn_date = [s \in Sessions |-> 0]
    /\ source_account = [s \in Sessions |-> NoAccount]
    /\ target_account = [s \in Sessions |-> NoAccount]
    /\ tracker = [s \in Sessions |-> NoTracker]
    /\ new_transaction_id = [s \in Sessions |-> 0]
    /\ loan = [s \in Sessions |-> NoLoan]
    /\ account = [s \in Sessions |-> NoAccount]
    /\ result = [s \in Sessions |-> NoResult]

Init ==
    /\ FreshLedger \/ UsedLedger
    /\ Sessionless


\* ------------------------------------------------------ session bookkeeping
\* a new request takes the first slot that serves no request (SessionLocal()
\* of get_db, utility/database.py line 63)
FreeSession(s) ==
    /\ pc[s] \in {"idle", "done"}
    /\ \A t \in Sessions : t < s => pc[t] \notin {"idle", "done"}

\* the handler returns or raises: its locals are gone, get_db rolls back what
\* the session had flushed and not committed and closes it
\* (utility/database.py lines 61-71), and the caller receives `response`
Finish(s, response) ==
    /\ pc' = [pc EXCEPT ![s] = "done"]
    /\ result' = [result EXCEPT ![s] = response]
    /\ req' = [req EXCEPT ![s] = NoRequest]
    /\ amount' = [amount EXCEPT ![s] = 0]
    /\ txn_date' = [txn_date EXCEPT ![s] = 0]
    /\ source_account' = [source_account EXCEPT ![s] = NoAccount]
    /\ target_account' = [target_account EXCEPT ![s] = NoAccount]
    /\ tracker' = [tracker EXCEPT ![s] = NoTracker]
    /\ new_transaction_id' = [new_transaction_id EXCEPT ![s] = 0]
    /\ loan' = [loan EXCEPT ![s] = NoLoan]
    /\ account' = [account EXCEPT ![s] = NoAccount]

\* db.commit() returns, or raises (a storage failure)
CommitOutcomes == {TRUE, FALSE}

\* the dates a clock that read `today` last may read now
ClockReadings == today..MaxDay

\* ---------------------------------------------------------------- transfers
\* controller/transaction_controller.py transfer_funds, on a fresh session:
\* the request is validated (TransactionRequest) and handed to
\* process_fund_transfer, which rounds the amount (line 45) and reads the
\* source account (line 47); that first SELECT begins the session's database
\* transaction
transfer_funds(s, customer_id, source_number, target_number, amt, now) ==
    /\ FreeSession(s)
    /\ ncalls < MaxCalls
    /\ ncalls' = ncalls + 1
    /\ IF ValidAmount(amt)
       THEN /\ req' = [req EXCEPT ![s] = [kind |-> "transfer",
                                          customer_id |-> customer_id,
                                          source_account_number |-> source_number,
                                          target_account_number |-> target_number]]
            /\ amount' = [amount EXCEPT ![s] = Quantize(amt)]
            /\ source_account' = [source_account EXCEPT
                                    ![s] = QueryAccountByNumber(source_number)]
            /\ txn_date' = [txn_date EXCEPT ![s] = now]
            /\ today' = now
            /\ pc' = [pc EXCEPT ![s] = "lookup_target"]
            /\ result' = [result EXCEPT ![s] = NoResult]
            /\ UNCHANGED <<target_account, tracker, new_transaction_id,
                           loanVars>>
       ELSE /\ Finish(s, Response(422, "Invalid amount"))
            /\ UNCHANGED today
    /\ UNCHANGED dbVars

\* fault seeded for C16: the ownership check of line 55 made on the target
\* account
LookupTarget_TargetOwned(s) ==
    /\ pc[s] = "lookup_target"
    /\ LET src == source_account[s]
           row == QueryAccountByNumber(req[s].target_account_number)
           tgt == IF row.account_id = src.account_id THEN src ELSE row
       IN IF src.account_id = NoId
          THEN Finish(s, Response(404, "Source account not found."))
          ELSE IF tgt.account_id = NoId
          THEN Finish(s, Response(404, "Target account not found."))
          ELSE IF tgt.customer_id # req[s].customer_id
          THEN Finish(s, Response(403, "You do not own the source account."))
          ELSE /\ target_account' = [target_account EXCEPT ![s] = tgt]
               /\ pc' = [pc EXCEPT ![s] = "get_tracker"]
               /\ UNCHANGED <<result, req, amount, txn_date, source_account, tracker,
                              new_transaction_id, loanVars>>
    /\ UNCHANGED <<dbVars, envVars>>

\* line 48, then the checks of lines 50-56.  A row the session already holds
\* is not read again (identity map): a transfer to the source account itself
\* gets the very object of line 47.
LookupTarget(s) ==
    /\ pc[s] = "lookup_target"
    /\ LET src == source_account[s]
           row == QueryAccountByNumber(req[s].target_account_number)
           tgt == IF row.account_id = src.account_id THEN src ELSE row
       IN IF src.account_id = NoId
          THEN Finish(s, Response(404, "Source account not found."))
          ELSE IF tgt.account_id = NoId
          THEN Finish(s, Response(404, "Target account not found."))
          ELSE IF src.customer_id # req[s].customer_id
          THEN Finish(s, Response(403, "You do not own the source account."))
          ELSE /\ target_account' = [target_account EXCEPT ![s] = tgt]
               /\ pc' = [pc EXCEPT ![s] = "get_tracker"]
               /\ UNCHANGED <<result, req, amount, txn_date, source_account, tracker,
                              new_transaction_id, loanVars>>
    /\ UNCHANGED <<dbVars, envVars>>

\* lines 60-71: reject, or go on to the try of line 73 with tracker `trk`
CheckLimits(s, trk) ==
    LET verdict == CheckTransfer(trk.transacted_amount,
                                 source_account[s].current_balance, amount[s])
    IN IF verdict = NoResult
       THEN /\ tracker' = [tracker EXCEPT ![s] = trk]
            /\ pc' = [pc EXCEPT ![s] = "apply"]
            /\ UNCHANGED <<result, req, amount, txn_date, source_account,
                           target_account, new_transaction_id, loanVars>>
       ELSE Finish(s, verdict)

\* fault seeded for C25: the SELECT of line 25 without the date filter
GetDailyTracker_AnyDate(s, now) ==
    /\ pc[s] = "get_tracker"
    /\ today' = now
    /\ LET a == source_account[s].account_id
           rows == {t \in trackers : t.account_id = a}
       IN IF rows # {}
          THEN LET row == CHOOSE t \in rows : TRUE
               IN CheckLimits(s, [account_id |-> a,
                                  transaction_date |-> row.transaction_date,
                                  transacted_amount |-> row.transacted_amount,
                                  pending |-> FALSE])
          ELSE /\ tracker' = [tracker EXCEPT
                                ![s] = [account_id |-> a, transaction_date |-> now,
                                        transacted_amount |-> 0, pending |-> FALSE]]
               /\ pc' = [pc EXCEPT ![s] = "flush_tracker"]
               /\ UNCHANGED <<result, req, amount, txn_date, source_account,
                              target_account, new_transaction_id,
                              loanVars>>
    /\ UNCHANGED <<dbVars, ncalls>>

\* _get_daily_tracker lines 23-30: date.today() and the SELECT of that
\* date's tracker row
GetDailyTracker(s, now) ==
    /\ pc[s] = "get_tracker"
    /\ today' = now
    /\ LET a == source_account[s].account_id
           rows == TrackerRows(a, now)
       IN IF rows # {}
          THEN LET row == CHOOSE t \in rows : TRUE
               IN CheckLimits(s, [account_id |-> a, transaction_date |-> now,
                                  transacted_amount |-> row.transacted_amount,
                                  pending |-> FALSE])
          ELSE /\ tracker' = [tracker EXCEPT
                                ![s] = [account_id |-> a, transaction_date |-> now,
                                        transacted_amount |-> 0, pending |-> FALSE]]
               /\ pc' = [pc EXCEPT ![s] = "flush_tracker"]
               /\ UNCHANGED <<result, req, amount, txn_date, source_account,
                              target_account, new_transaction_id,
                              loanVars>>
    /\ UNCHANGED <<dbVars, ncalls>>

\* fault seeded for C18: the INSERT of line 37 committed as it is flushed
FlushTracker_Committed(s) ==
    /\ pc[s] = "flush_tracker"
    /\ LET a == tracker[s].account_id
           d == tracker[s].transaction_date
       IN /\ \A t \in Sessions \ {s} : ~PendingInsertBy(t, a, d)
          /\ IF TrackerRows(a, d) # {}
             THEN /\ Finish(s, Response(500, "An unexpected error occurred during the transfer."))
                  /\ UNCHANGED trackers
             ELSE /\ CheckLimits(s, [tracker[s] EXCEPT !.pending = TRUE])
                  /\ trackers' = trackers \cup
                        {[account_id |-> a, transaction_date |-> d,
                          transacted_amount |-> 0]}
    /\ UNCHANGED <<current_balance, transactions, audit_log, loan_status, envVars>>

\* fault seeded for C20: the INSERT of line 37 still waiting once the other
\* session's row is committed
FlushTracker_WaitsOn(s) ==
    /\ pc[s] = "flush_tracker"
    /\ LET a == tracker[s].account_id
           d == tracker[s].transaction_date
       IN /\ \A t \in Sessions \ {s} : ~PendingInsertBy(t, a, d)
          /\ TrackerRows(a, d) = {}
          /\ CheckLimits(s, [tracker[s] EXCEPT !.pending = TRUE])
    /\ UNCHANGED <<dbVars, envVars>>

\* fault seeded for C27: the INSERT of line 37 on a table without
\* uq_account_date
FlushTracker_Unconstrained(s) ==
    /\ pc[s] = "flush_tracker"
    /\ CheckLimits(s, [tracker[s] EXCEPT !.pending = TRUE])
    /\ UNCHANGED <<dbVars, envVars>>

\* _get_daily_tracker lines 31-37: db.add(tracker); db.flush().  The INSERT
\* waits while another session holds an uncommitted row of the same
\* (account_id, transaction_date) (uq_account_date), and raises IntegrityError
\* when such a row is committed; line 37 is outside the try of line 73, so
\* the controller reports it (transaction_controller lines 42-44).
FlushTracker(s) ==
    /\ pc[s] = "flush_tracker"
    /\ LET a == tracker[s].account_id
           d == tracker[s].transaction_date
       IN /\ \A t \in Sessions \ {s} : ~PendingInsertBy(t, a, d)
          /\ IF TrackerRows(a, d) # {}
             THEN Finish(s, Response(500, "An unexpected error occurred during the transfer."))
             ELSE CheckLimits(s, [tracker[s] EXCEPT !.pending = TRUE])
    /\ UNCHANGED <<dbVars, envVars>>

\* fault seeded for C26: the id of the latest row given again
NewUuid_Reused ==
    LET used == {r.transaction_id : r \in transactions}
    IN IF used = {} THEN Cardinality(used) + 1
       ELSE CHOOSE n \in used : \A m \in used : m <= n

\* str(uuid.uuid4()): an id no row and no session holds
NewUuid ==
    LET used == {r.transaction_id : r \in transactions}
                \cup {new_transaction_id[t] : t \in Sessions}
                \cup {result[t].transaction_id : t \in Sessions}
    IN CHOOSE n \in 1..(Cardinality(used) + 1) :
          n \notin used /\ \A m \in 1..(n - 1) : m \in used

\* the Transaction row of lines 80-87 / 107-114; timestamp is the server's
\* now(), the start of the inserting database transaction
TransactionRow(s, id, status, date) ==
    [transaction_id |-> id,
     source_account_id |-> source_account[s].account_id,
     target_account_id |-> target_account[s].account_id,
     amount |-> amount[s],
     transaction_type |-> "Transfer",
     status |-> status,
     date |-> date]

\* create_audit_log lines 28-34: the AuditLog row (log_id autoincrement)
AuditRow(user_id, action, txn_id) ==
    [log_id |-> Cardinality(audit_log) + 1, user_id |-> user_id, action |-> action,
     txn_id |-> txn_id]

\* fault seeded for C12: the credit of line 75 left out of the commit that
\* carries the debit
BalancesAfterTransfer_DebitOnly(s) ==
    LET src == source_account[s]
        tgt == target_account[s]
    IN IF src.account_id = tgt.account_id
       THEN current_balance
       ELSE [current_balance EXCEPT
               ![src.account_id] = src.current_balance - amount[s]]

\* fault seeded for C28: source and target loaded as two objects, each
\* written with the value computed from its own copy
BalancesAfterTransfer_TwoObjects(s) ==
    LET src == source_account[s]
        tgt == target_account[s]
    IN [current_balance EXCEPT
          ![src.account_id] = src.current_balance - amount[s],
          ![tgt.account_id] = tgt.current_balance + amount[s]]

\* lines 74-75 as the flush writes them: UPDATE Account SET current_balance =
\* <the value computed in the session>.  When source and target are one
\* object the attribute ends at the value it was loaded with and no UPDATE
\* is emitted.
BalancesAfterTransfer(s) ==
    LET src == source_account[s]
        tgt == target_account[s]
    IN IF src.account_id = tgt.account_id
       THEN current_balance
       ELSE [current_balance EXCEPT
               ![src.account_id] = src.current_balance - amount[s],
               ![tgt.account_id] = tgt.current_balance + amount[s]]

\* fault seeded for C21: the tracker write replacing the account's rows of
\* every date
TrackersAfterTransfer_AllDates(s) ==
    LET trk == tracker[s]
    IN {t \in trackers : t.account_id # trk.account_id}
       \cup {[account_id |-> trk.account_id,
              transaction_date |-> trk.transaction_date,
              transacted_amount |-> trk.transacted_amount + amount[s]]}

\* lines 60 and 77 as the commit writes them: the session's tracker row with
\* transacted_amount = new_transacted_amount, as a row of its own when the
\* session inserted it (line 37), in place of the row it read otherwise
TrackersAfterTransfer(s) ==
    LET trk == tracker[s]
        row == [account_id |-> trk.account_id,
                transaction_date |-> trk.transaction_date,
                transacted_amount |-> trk.transacted_amount + amount[s]]
    IN IF trk.pending
       THEN trackers \cup {row}
       ELSE (trackers \ TrackerRows(trk.account_id, trk.transaction_date))
            \cup {row}

\* what becomes of the work of lines 74-97:
\*   "committed"  the commit of audit_services line 39 returns;
\*   "discarded"  that commit raises, line 42 rolls back and the error is
\*                swallowed (line 43);
\*   "raised"     that commit raises and a statement after it raises as well
\*                (the rollback of line 42, or the reload of the expired
\*                source account for the message of line 99)
TransferOutcomes == {"committed", "discarded", "raised"}

\* lines 73-104: the mutations, the Success row, and create_audit_log
\* (audit_services lines 24-43), which commits the caller's session: the
\* commit of its line 39 flushes and commits the debit, the credit, the
\* tracker, the Success row and the audit row at once, or raises and persists
\* none of them.  The commit of line 98 finds nothing to write and no
\* connection in use.  Unless an exception reaches line 102 the id is
\* returned (line 100).
ApplyTransfer(s, outcome) ==
    /\ pc[s] = "apply"
    /\ IF outcome = "committed"
       THEN /\ current_balance' = BalancesAfterTransfer(s)
            /\ trackers' = TrackersAfterTransfer(s)
            /\ transactions' = transactions \cup
                   {TransactionRow(s, NewUuid, "Success", txn_date[s])}
            /\ audit_log' = audit_log \cup
                   {AuditRow(req[s].customer_id, "Fund Transfer SUCCESS", NewUuid)}
       ELSE UNCHANGED <<current_balance, trackers, transactions, audit_log>>
    /\ IF outcome # "raised"
       THEN Finish(s, [status |-> 201, detail |-> "Funds transferred successfully.",
                       transaction_id |-> NewUuid])
       ELSE /\ pc' = [pc EXCEPT ![s] = "record_failed"]
            /\ new_transaction_id' = [new_transaction_id EXCEPT ![s] = NewUuid]
            /\ tracker' = [tracker EXCEPT ![s].pending = FALSE]
            /\ UNCHANGED <<req, amount, txn_date, source_account, target_account,
                           loanVars, result>>
    /\ UNCHANGED <<loan_status, today, ncalls>>

\* lines 106-128: the Failed row and its audit entry, committed by
\* create_audit_log when its commit succeeds, dropped when it raises
\* (except: pass); then the 500 of line 128.  The rollback of line 103 ended
\* the database transaction, so the row's now() is read anew.
RecordFailed(s, ok, now) ==
    /\ pc[s] = "record_failed"
    /\ today' = now
    /\ IF ok
       THEN /\ transactions' = transactions \cup
                   {TransactionRow(s, NewUuid, "Failed", now)}
            /\ audit_log' = audit_log \cup
                   {AuditRow(req[s].customer_id, "Fund Transfer FAILED", 0)}
       ELSE UNCHANGED <<transactions, audit_log>>
    /\ Finish(s, Response(500, "An error occurred during transaction processing."))
    /\ UNCHANGED <<current_balance, trackers, loan_status, ncalls>>

\* -------------------------------------------------------------------- loans
\* the response of lines 137-141
AlreadyReviewed(loan_id) ==
    Response(400, IF loan_status[loan_id] = "Approved"
                  THEN "Loan is already Approved. Cannot review."
                  ELSE "Loan is already Rejected. Cannot review.")

\* review_loan_application lines 132-151 and 163-166, on a fresh session
review_loan_application(s, loan_id, new_status) ==
    /\ FreeSession(s)
    /\ ncalls < MaxCalls
    /\ ncalls' = ncalls + 1
    /\ IF loan_id \notin LoanIds
       THEN Finish(s, Response(404, "Loan application not found."))
       ELSE IF loan_status[loan_id] # "Pending"
       THEN Finish(s, AlreadyReviewed(loan_id))
       ELSE /\ loan' = [loan EXCEPT ![s] = [loan_id |-> loan_id,
                                            loan_status |-> new_status]]
            /\ pc' = [pc EXCEPT ![s] = IF new_status = "Approved"
                                       THEN "loan_account" ELSE "loan_commit"]
            /\ req' = [req EXCEPT ![s] = [kind |-> "review"]]
            /\ result' = [result EXCEPT ![s] = NoResult]
            /\ UNCHANGED <<xferVars, account>>
    /\ UNCHANGED <<dbVars, today>>

\* lines 155-160: first() of the customer's accounts, no ORDER BY
LoanAccount(s) ==
    /\ pc[s] = "loan_account"
    /\ LET owned == {a \in AccountIds :
                       customer_id_of(a) = loan_customer_id(loan[s].loan_id)}
       IN IF owned = {}
          THEN Finish(s, Response(500, "Customer has no associated account for fund transfer."))
          ELSE /\ \E a \in owned :
                    account' = [account EXCEPT
                                  ![s] = [account_id |-> a,
                                          customer_id |-> customer_id_of(a),
                                          current_balance |-> current_balance[a]]]
               /\ pc' = [pc EXCEPT ![s] = "loan_commit"]
               /\ UNCHANGED <<result, req, xferVars, loan>>
    /\ UNCHANGED <<dbVars, envVars>>

\* line 160 as the flush writes it
BalancesAfterDisbursement(s) ==
    IF loan[s].loan_status = "Approved"
    THEN [current_balance EXCEPT
            ![account[s].account_id] =
                account[s].current_balance + loan_amount_of(loan[s].loan_id)]
    ELSE current_balance

\* lines 168-179
LoanCommit(s, ok) ==
    /\ pc[s] = "loan_commit"
    /\ IF ok
       THEN /\ loan_status' = [loan_status EXCEPT ![loan[s].loan_id] = loan[s].loan_status]
            /\ current_balance' = BalancesAfterDisbursement(s)
            /\ Finish(s, Response(200, "Loan reviewed."))
       ELSE /\ Finish(s, Response(500, "Database error during loan review update."))
            /\ UNCHANGED <<loan_status, current_balance>>
    /\ UNCHANGED <<trackers, transactions, audit_log, today, ncalls>>

\* ------------------------------------------------------------------ balance
\* controller/transaction_controller.py get_balance, on a fresh session: the
\* path's account number and the token's customer are handed to
\* get_account_balance
get_balance(s, customer_id, account_number) ==
    /\ FreeSession(s)
    /\ ncalls < MaxCalls
    /\ ncalls' = ncalls + 1
    /\ req' = [req EXCEPT ![s] = [kind |-> "balance",
                                  customer_id |-> customer_id,
                                  account_number |-> account_number]]
    /\ pc' = [pc EXCEPT ![s] = "balance_account"]
    /\ result' = [result EXCEPT ![s] = NoResult]
    /\ UNCHANGED <<dbVars, today, xferVars, loanVars>>

\* the query of lines 132-135: the account of that number AND that customer
QueryAccountOf(n, c) ==
    LET found == {a \in AccountIds :
                    account_number_of(a) = n /\ customer_id_of(a) = c}
    IN IF found = {} THEN NoAccount
       ELSE LET a == CHOOSE x \in found : TRUE
            IN [account_id |-> a, customer_id |-> customer_id_of(a),
                current_balance |-> current_balance[a]]

\* the response of line 138
BalanceNotFound ==
    Response(404, "Account not found or does not belong to the user.")

\* AccountBalanceResponse (transaction_controller.py lines 62-67)
AccountBalanceResponse(number, balance, usage) ==
    [status |-> 200, detail |-> "balance", transaction_id |-> 0,
     account_number |-> number, current_balance |-> balance,
     daily_transfer_limit |-> DAILY_TRANSFER_LIMIT,
     daily_transacted_amount_today |-> usage]

\* lines 132-138
BalanceAccount(s) ==
    /\ pc[s] = "balance_account"
    /\ LET found == QueryAccountOf(req[s].account_number, req[s].customer_id)
       IN IF found = NoAccount
          THEN Finish(s, BalanceNotFound)
          ELSE /\ account' = [account EXCEPT ![s] = found]
               /\ pc' = [pc EXCEPT ![s] = "balance_usage"]
               /\ UNCHANGED <<result, req, xferVars, loan>>
    /\ UNCHANGED <<dbVars, envVars>>

\* fault seeded for C24: the usage taken from the account's rows of any date
DailyUsage_AnyDate(a, d) ==
    SumAmounts({[transaction_id |-> t.transaction_date,
                 amount |-> t.transacted_amount] :
                   t \in {k \in trackers : k.account_id = a}})

\* lines 141-146: the committed row of (account, date.today()), or 0.00
DailyUsage(a, d) ==
    IF TrackerRows(a, d) = {} THEN 0
    ELSE (CHOOSE t \in TrackerRows(a, d) : TRUE).transacted_amount

\* lines 141-148 and the controller's lines 62-67
BalanceUsage(s, now) ==
    /\ pc[s] = "balance_usage"
    /\ today' = now
    /\ Finish(s, AccountBalanceResponse(req[s].account_number,
                                        account[s].current_balance,
                                        DailyUsage(account[s].account_id, now)))
    /\ UNCHANGED <<dbVars, ncalls>>

\* ----------------------------------------------------------- authentication
\* the User table: the customers, and one admin
UserIds == Customers \cup {"u1"}
Roles == {"customer", "admin"}
user_role_of(u) == IF u = "u1" THEN "admin" ELSE "customer"

\* bearer tokens: signed with SECRET_KEY or not; `sub` a user, a user the
\* table no longer has ("u9"), or absent; `role` a role, or absent
Tokens ==
    [signed : BOOLEAN, sub : UserIds \cup {"u9", NoId}, role : Roles \cup {NoId}]

\* credentials_exception (lines 38-42), and the response of lines 72-75
CredentialsError ==
    Response(401, "Could not validate credentials or user no longer exists")
ServerAuthError == Response(500, "Server authentication error.")

\* TokenData(user_id=user_id, role=role) (line 78)
TokenData(user_id, role) ==
    [status |-> 200, detail |-> "identity", transaction_id |-> 0,
     user_id |-> user_id, role |-> role]

\* lines 44-54, on a fresh session: jwt.decode raises JWTError on a token not
\* signed with the key; a payload without sub or role raises
\* credentials_exception
get_authenticated_user_and_role(s, token) ==
    /\ FreeSession(s)
    /\ ncalls < MaxCalls
    /\ ncalls' = ncalls + 1
    /\ IF ~token.signed \/ token.sub = NoId \/ token.role = NoId
       THEN Finish(s, CredentialsError)
       ELSE /\ req' = [req EXCEPT ![s] = [kind |-> "auth",
                                          user_id |-> token.sub,
                                          role |-> token.role]]
            /\ pc' = [pc EXCEPT ![s] = "validate_user"]
            /\ result' = [result EXCEPT ![s] = NoResult]
            /\ UNCHANGED <<xferVars, loanVars>>
    /\ UNCHANGED <<dbVars, today>>

\* the verdict of lines 57-78: the credentials_exception
\* raised at line 64 or 69 is an Exception, caught by the except of line 71
\* and replaced by the 500 of lines 72-75
ValidateVerdict(user_id, role) ==
    IF user_id \notin UserIds THEN ServerAuthError
    ELSE IF user_role_of(user_id) # role THEN ServerAuthError
    ELSE TokenData(user_id, role)

\* lines 57-78
ValidateUser(s) ==
    /\ pc[s] = "validate_user"
    /\ Finish(s, ValidateVerdict(req[s].user_id, req[s].role))
    /\ UNCHANGED <<dbVars, envVars>>

\* ------------------------------------------------------------ specification
\* all requests of one calendar day: every clock reading is `today`
Next ==
    \/ \E s \in Sessions, r \in Requests, now \in {today} :
          transfer_funds(s, r.customer_id, r.source_account_number,
                         r.target_account_number, r.amount, now)
    \/ \E s \in Sessions : LookupTarget(s)
    \/ \E s \in Sessions, now \in {today} : GetDailyTracker(s, now)
    \/ \E s \in Sessions : FlushTracker(s)
    \/ \E s \in Sessions, outcome \in TransferOutcomes : ApplyTransfer(s, outcome)
    \/ \E s \in Sessions, ok \in CommitOutcomes, now \in {today} :
          RecordFailed(s, ok, now)
    \/ \E s \in Sessions, l \in RequestLoanIds, st \in {"Approved", "Rejected"} :
          review_loan_application(s, l, st)
    \/ \E s \in Sessions : LoanAccount(s)
    \/ \E s \in Sessions, ok \in CommitOutcomes : LoanCommit(s, ok)

Spec == Init /\ [][Next]_vars

\* requests across changes of date: a clock reading may be a later date
NextCalendar ==
    \/ \E s \in Sessions, r \in Requests, now \in ClockReadings :
          transfer_funds(s, r.customer_id, r.source_account_number,
                         r.target_account_number, r.amount, now)
    \/ \E s \in Sessions : LookupTarget(s)
    \/ \E s \in Sessions, now \in ClockReadings : GetDailyTracker(s, now)
    \/ \E s \in Sessions : FlushTracker(s)
    \/ \E s \in Sessions, outcome \in TransferOutcomes : ApplyTransfer(s, outcome)
    \/ \E s \in Sessions, ok \in CommitOutcomes, now \in ClockReadings :
          RecordFailed(s, ok, now)
    \/ \E s \in Sessions, l \in RequestLoanIds, st \in {"Approved", "Rejected"} :
          review_loan_application(s, l, st)
    \/ \E s \in Sessions : LoanAccount(s)
    \/ \E s \in Sessions, ok \in CommitOutcomes : LoanCommit(s, ok)

SpecCalendar == Init /\ [][NextCalendar]_vars


\* =================================================================== claims
Min(a, b) == IF a <= b THEN a ELSE b

Dates == 1..MaxDay

RECURSIVE SumBalances(_)
SumBalances(accts) ==
    IF accts = {} THEN 0
    ELSE LET a == CHOOSE x \in accts : TRUE
         IN current_balance[a] + SumBalances(accts \ {a})

\* the Success transfers out of account a on date d
SuccessTransfersFrom(a, d) ==
    {r \in transactions : /\ r.transaction_type = "Transfer"
                          /\ r.status = "Success"
                          /\ r.source_account_id = a
                          /\ r.date = d}

\* the Success transfers into account a from another account
CreditsTo(a) ==
    {r \in transactions : /\ r.transaction_type = "Transfer"
                          /\ r.status = "Success"
                          /\ r.target_account_id = a
                          /\ r.source_account_id # a}

\* transacted_amount of the tracker of (a, d), zero when there is none
TrackedAmount(a, d) ==
    IF TrackerRows(a, d) = {} THEN 0
    ELSE (CHOOSE t \in TrackerRows(a, d) : TRUE).transacted_amount

\* the sessions whose caller holds a transaction id
Returned == {s \in Sessions : pc[s] = "done" /\ result[s].status = 201}

\* ---- C1: N parallel transfers of one amount from one source
\* the request every caller of the scenario sends: 25000.00 from n2 (opened
\* with 30000.00) to n3, twice the amount being within the daily limit
SameSourceRequest ==
    [customer_id |-> "c2", source_account_number |-> "n2",
     target_account_number |-> "n3", amount |-> 25000000]

InitSameSource ==
    /\ FreshLedger
    /\ Sessionless

NextSameSource ==
    \/ \E s \in Sessions, now \in ClockReadings :
          /\ pc[s] = "idle"
          /\ transfer_funds(s, SameSourceRequest.customer_id,
                            SameSourceRequest.source_account_number,
                            SameSourceRequest.target_account_number,
                            SameSourceRequest.amount, now)
    \/ \E s \in Sessions : LookupTarget(s)
    \/ \E s \in Sessions, now \in ClockReadings : GetDailyTracker(s, now)
    \/ \E s \in Sessions : FlushTracker(s)
    \/ \E s \in Sessions : ApplyTransfer(s, "committed")

SpecSameSource == InitSameSource /\ [][NextSameSource]_vars

\* C1: of N concurrent transfers of amount A from one source with balance B
\* (each in its own session, no storage failure, daily limit not binding),
\* the callers that hold a transaction id never stand for more than B, and
\* once all N have returned exactly Min(N, B \div A) of them hold one.
C1_SameSourceAdmission ==
    LET A == Quantize(SameSourceRequest.amount)
        B == InitialBalance("a2")
        N == Cardinality(Sessions)
    IN /\ Cardinality(Returned) * A <= B
       /\ (\A s \in Sessions : pc[s] = "done")
             => Cardinality(Returned) = Min(N, B \div A)

\* ---- C2
\* C2: while no loan has been reviewed, the step in which a transfer that
\* returns a transaction id commits leaves the sum of its source's and its
\* target's balance, and the sum of all balances, as they were.
C2_TransfersConserveBalances ==
    [][\A s \in Sessions :
          (/\ pc[s] = "apply"
           /\ pc'[s] = "done"
           /\ result'[s].status = 201
           /\ \A l \in LoanIds : loan_status[l] = "Pending"
           /\ \A t \in Sessions : pc[t] \notin {"loan_account", "loan_commit"})
          => LET src == source_account[s].account_id
                 tgt == target_account[s].account_id
             IN /\ current_balance'[src] + current_balance'[tgt]
                     = current_balance[src] + current_balance[tgt]
                /\ SumBalances(AccountIds)' = SumBalances(AccountIds)]_vars

\* ---- C3
\* C3: for every account and date, the tracker's transacted_amount (zero when
\* there is no tracker) is the sum of the amounts of the committed Success
\* Transfer rows out of that account on that date.
C3_TrackerMatchesTransfers ==
    \A a \in AccountIds, d \in Dates :
        TrackedAmount(a, d) = SumAmounts(SuccessTransfersFrom(a, d))

\* ---- C4
\* C4: for every account and date, the amounts of the committed Success
\* transfers out of that account on that date add up to at most
\* DAILY_TRANSFER_LIMIT.
C4_TransfersWithinDailyLimit ==
    \A a \in AccountIds, d \in Dates :
        SumAmounts(SuccessTransfersFrom(a, d)) <= DAILY_TRANSFER_LIMIT

\* ---- C5
\* C5: an account that has only ever been credited (it is the source of no
\* transfer and belongs to no loan's customer), by transfers from pairwise
\* different source accounts, holds its opening balance plus the sum of the
\* credited amounts.
C5_NoLostCredit ==
    \A a \in AccountIds :
        (/\ \A r \in transactions :
               r.status = "Success" => r.source_account_id # a
         /\ \A l \in LoanIds : loan_customer_id(l) # customer_id_of(a)
         /\ \A r1, r2 \in CreditsTo(a) :
               r1 # r2 => r1.source_account_id # r2.source_account_id)
        => current_balance[a] = InitialBalance(a) + SumAmounts(CreditsTo(a))

\* ---- C6
\* C6: every committed balance is at least zero.
C6_BalancesNonNegative ==
    \A a \in AccountIds : current_balance[a] >= 0

\* an account emptied by a committed transfer, and a loan disbursed
C6_Witness ==
    /\ \E a \in AccountIds :
          /\ current_balance[a] = 0
          /\ \E r \in transactions :
                r.status = "Success" /\ r.source_account_id = a
    /\ \E l \in LoanIds : loan_status[l] = "Approved"

\* ---- C7
\* C7: every committed tracker row has transacted_amount at most
\* DAILY_TRANSFER_LIMIT.
C7_TrackerWithinLimit ==
    \A t \in trackers : t.transacted_amount <= DAILY_TRANSFER_LIMIT

\* a tracker filled to the limit exactly by two committed transfers
C7_Witness ==
    \E t \in trackers :
        /\ t.transacted_amount = DAILY_TRANSFER_LIMIT
        /\ Cardinality(SuccessTransfersFrom(t.account_id, t.transaction_date)) = 2

\* ---- C8
\* C8: when a transfer that passed validation leaves the try block with its
\* storage commit failed (nothing of it persisted), the call goes on to the
\* InternalError path (the Failed row, its audit entry, the 500) and so
\* returns no transaction id.
C8_CommitFailureIsInternalError ==
    [][\A s \in Sessions :
          (pc[s] = "apply" /\ pc'[s] # "apply" /\ transactions' = transactions)
          => /\ pc'[s] = "record_failed"
             /\ current_balance' = current_balance
             /\ trackers' = trackers]_vars

\* ---- C9
\* C9: when a transfer returns a transaction id and its audit entry was not
\* written, the transfer's own writes are committed all the same: the Success
\* row, the debit and credit, and the tracker increment.
C9_AuditFailureKeepsTransfer ==
    [][\A s \in Sessions :
          (/\ pc[s] = "apply"
           /\ pc'[s] = "done"
           /\ result'[s].status = 201
           /\ audit_log' = audit_log)
          => /\ \E r \in transactions' \ transactions : r.status = "Success"
             /\ current_balance' = BalancesAfterTransfer(s)
             /\ trackers' = TrackersAfterTransfer(s)]_vars

\* ---- C10
\* C10: when a transfer returns transaction id T, the committed rows with id
\* T are exactly one Success Transfer row with the rounded amount and the
\* resolved source and target account ids, and some audit entry refers to T.
C10_ReturnedIdHasRow ==
    [][\A s \in Sessions :
          (pc[s] = "apply" /\ pc'[s] = "done" /\ result'[s].status = 201)
          => LET T == result'[s].transaction_id
             IN /\ {r \in transactions' : r.transaction_id = T}
                     = {TransactionRow(s, T, "Success", txn_date[s])}
                /\ \E e \in audit_log' : e.txn_id = T]_vars

\* ---- C11
\* the places of a request inside process_fund_transfer
TransferPlaces == {"lookup_target", "get_tracker", "flush_tracker", "apply",
                   "record_failed"}

\* C11: the step in which a call of process_fund_transfer returns to its
\* caller, whatever the outcome, adds exactly one Transaction row and at
\* least one audit entry to the committed state (no step before it adds
\* any).
C11_EveryCallLeavesOneRow ==
    [][\A s \in Sessions :
          (pc[s] \in TransferPlaces /\ pc'[s] = "done")
          => /\ transactions \subseteq transactions'
             /\ Cardinality(transactions' \ transactions) = 1
             /\ audit_log' \ audit_log # {}]_vars

BoundaryLedger(balance, used) ==
    /\ current_balance = [a \in AccountIds |->
                             CASE a = "a1" -> balance
                               [] a = "a2" -> InitialBalance(a)
                               [] OTHER -> InitialBalance(a) + used]
    /\ trackers = IF used = 0 THEN {}
                  ELSE {[account_id |-> "a1", transaction_date |-> 1,
                         transacted_amount |-> used]}
    /\ transactions = IF used = 0 THEN {}
                      ELSE {[EarlierTransfer EXCEPT !.amount = used]}
    /\ audit_log = IF used = 0 THEN {}
                   ELSE {[log_id |-> 1, user_id |-> "c1",
                          action |-> "Fund Transfer SUCCESS", txn_id |-> 1]}

\* 100.00 or 60000.00 in the account; nothing or 49999.00 transferred today
BoundaryBalances == {10000, 6000000}
BoundaryUsed == {0, 4999900}

\* the owner's transfers from n1 to n2 of 1.00, 2.00, 100.00 and 100.01, and
\* of 0, -1.00, 0.004 and 0.005 (amounts in mills); a transfer of 1.00 by
\* another customer from n1 to a missing account; and one between missing
\* accounts
BoundaryRequests ==
    [customer_id : {"c1"}, source_account_number : {"n1"},
     target_account_number : {"n2"},
     amount : {1000, 2000, 100000, 100010, 0, -1000, 4, 5}]
    \cup {[customer_id |-> "c2", source_account_number |-> "n1",
           target_account_number |-> "n9", amount |-> 1000],
          [customer_id |-> "c2", source_account_number |-> "n9",
           target_account_number |-> "n9", amount |-> 1000]}

InitBoundary ==
    /\ \E balance \in BoundaryBalances, used \in BoundaryUsed :
          BoundaryLedger(balance, used)
    /\ Sessionless

NextBoundary ==
    \/ \E s \in Sessions, r \in BoundaryRequests, now \in {today} :
          transfer_funds(s, r.customer_id, r.source_account_number,
                         r.target_account_number, r.amount, now)
    \/ \E s \in Sessions : LookupTarget(s)
    \/ \E s \in Sessions, now \in {today} : GetDailyTracker(s, now)
    \/ \E s \in Sessions : FlushTracker(s)
    \/ \E s \in Sessions : ApplyTransfer(s, "committed")

SpecBoundary == InitBoundary /\ [][NextBoundary]_vars

\* the response of lines 64-67, and that of line 71
DailyLimitExceeded == Response(403, "Exceeding global daily transaction limit")
InsufficientFunds == Response(400, "Insufficient funds in source account.")

\* the step in which session s takes the decision of lines 60-71
Decides(s) ==
    /\ pc[s] \in {"get_tracker", "flush_tracker"}
    /\ pc'[s] \in {"apply", "done"}
    /\ pc'[s] = "done" => result'[s].status # 500

\* tracker.transacted_amount as session s holds it when it decides: the
\* committed value its SELECT finds, or the zero of the row it inserted
TransactedRead(s) ==
    IF pc[s] = "get_tracker"
    THEN TrackedAmount(source_account[s].account_id, today')
    ELSE 0

\* ---- C13
\* C13: a transfer between existing accounts by the owner of the source is
\* rejected with DailyLimitExceeded exactly when tracker.transacted_amount +
\* amount > DAILY_TRANSFER_LIMIT; the rejecting step changes no balance and
\* no tracker; and an accepted transfer that commits leaves the tracker at
\* the sum, which is at most the limit.
C13_LimitCheckIsStrict ==
    [][\A s \in Sessions :
          /\ Decides(s)
                => /\ (result'[s] = DailyLimitExceeded)
                        <=> (TransactedRead(s) + amount[s] > DAILY_TRANSFER_LIMIT)
                   /\ result'[s] = DailyLimitExceeded
                        => /\ current_balance' = current_balance
                           /\ trackers' = trackers
          /\ (pc[s] = "apply" /\ pc'[s] = "done" /\ transactions' # transactions)
                => \E k \in trackers' :
                      /\ k.account_id = source_account[s].account_id
                      /\ k.transacted_amount =
                            tracker[s].transacted_amount + amount[s]
                      /\ k.transacted_amount <= DAILY_TRANSFER_LIMIT]_vars

\* with 49999.00 transferred today, the transfer of 2.00 was rejected and
\* the transfer of 1.00 committed, leaving the tracker at exactly 50000.00
C13_Witness ==
    /\ \E s \in Sessions : result[s] = DailyLimitExceeded
    /\ \E s \in Returned : \E r \in transactions :
          r.transaction_id = result[s].transaction_id /\ r.amount = 100
    /\ TrackedAmount("a1", 1) = DAILY_TRANSFER_LIMIT

\* ---- C14
\* C14: a transfer that passes the limit check is rejected with
\* InsufficientFunds exactly when source.current_balance < amount; the
\* rejecting step changes no balance and no tracker; and an accepted transfer
\* to another account that commits leaves the source at the balance read
\* minus the amount, which is at least zero.
C14_BalanceCheckIsStrict ==
    [][\A s \in Sessions :
          /\ Decides(s)
                => /\ (result'[s] = InsufficientFunds)
                        <=> (/\ TransactedRead(s) + amount[s] <= DAILY_TRANSFER_LIMIT
                             /\ source_account[s].current_balance < amount[s])
                   /\ result'[s] = InsufficientFunds
                        => /\ current_balance' = current_balance
                           /\ trackers' = trackers
          /\ (/\ pc[s] = "apply"
              /\ pc'[s] = "done"
              /\ transactions' # transactions
              /\ source_account[s].account_id # target_account[s].account_id)
                => /\ current_balance'[source_account[s].account_id] =
                         source_account[s].current_balance - amount[s]
                   /\ current_balance'[source_account[s].account_id] >= 0]_vars

\* with 100.00 in the account, the transfer of 100.01 was rejected and the
\* transfer of 100.00 committed, leaving the balance at exactly 0.00
C14_Witness ==
    /\ \E s \in Sessions : result[s] = InsufficientFunds
    /\ \E s \in Returned : \E r \in transactions :
          r.transaction_id = result[s].transaction_id /\ r.amount = 10000
    /\ current_balance["a1"] = 0

\* ---- C15
\* the response to a request the request model refuses
InvalidAmount == Response(422, "Invalid amount")

\* C15: no request past validation carries an amount that is zero or less
\* after the rounding of line 45 (so every request whose rounded amount is
\* not positive was refused), no committed Transaction row has such an
\* amount, and the step that refuses a request with InvalidAmount changes
\* nothing in the committed state.
C15_NonPositiveAmountRefused ==
    [][\A s \in Sessions :
          /\ pc'[s] \in TransferPlaces => amount'[s] > 0
          /\ \A r \in transactions' : r.amount > 0
          /\ (pc[s] \in {"idle", "done"} /\ ncalls' # ncalls
                /\ pc'[s] = "done" /\ result'[s] = InvalidAmount)
                => dbVars' = dbVars]_vars

\* a request was refused with InvalidAmount while a transfer is under way
C15_Witness ==
    \E s, t \in Sessions :
        /\ pc[s] = "done"
        /\ result[s] = InvalidAmount
        /\ pc[t] = "apply"

\* ---- C16
\* the response of line 56
Forbidden == Response(403, "You do not own the source account.")

\* C16: a request naming two existing accounts is refused with Forbidden
\* exactly when the requester is not the customer owning the source account,
\* whoever owns the target; the refusing step changes nothing in the
\* committed state; and every transfer that commits was requested by the
\* owner of its source account.
C16_OnlyOwnerDebits ==
    [][\A s \in Sessions :
          /\ (/\ pc[s] = "lookup_target"
              /\ pc'[s] # "lookup_target"
              /\ source_account[s].account_id # NoId
              /\ \E a \in AccountIds :
                    account_number_of(a) = req[s].target_account_number)
                => /\ (result'[s] = Forbidden)
                        <=> (customer_id_of(source_account[s].account_id)
                               # req[s].customer_id)
                   /\ result'[s] # Forbidden => pc'[s] = "get_tracker"
                   /\ result'[s] = Forbidden => dbVars' = dbVars
          /\ (pc[s] = "apply" /\ pc'[s] = "done" /\ transactions' # transactions)
                => \A r \in transactions' \ transactions :
                      customer_id_of(r.source_account_id) = req[s].customer_id]_vars

\* one request was refused with Forbidden, and a caller holds the id of a
\* committed transfer into an account of another customer
C16_Witness ==
    /\ \E s \in Sessions : result[s] = Forbidden
    /\ \E s \in Returned : \E r \in transactions :
          /\ r.transaction_id = result[s].transaction_id
          /\ customer_id_of(r.target_account_id) # customer_id_of(r.source_account_id)

\* ---- C17
\* the responses of lines 51 and 53
SourceNotFound == Response(404, "Source account not found.")
TargetNotFound == Response(404, "Target account not found.")

\* C17: the first failing check decides the answer, the checks being taken
\* in the order source exists, target exists, requester owns the source,
\* daily limit, balance: a missing account is reported even to a requester
\* who owns nothing, and an amount over both the limit and the balance is
\* reported as DailyLimitExceeded.
C17_ChecksInOrder ==
    [][\A s \in Sessions :
          /\ (pc[s] = "lookup_target" /\ pc'[s] # "lookup_target")
                => IF \A a \in AccountIds :
                         account_number_of(a) # req[s].source_account_number
                   THEN result'[s] = SourceNotFound
                   ELSE IF \A a \in AccountIds :
                              account_number_of(a) # req[s].target_account_number
                   THEN result'[s] = TargetNotFound
                   ELSE IF customer_id_of(source_account[s].account_id)
                             # req[s].customer_id
                   THEN result'[s] = Forbidden
                   ELSE pc'[s] = "get_tracker"
          /\ Decides(s)
                => IF TransactedRead(s) + amount[s] > DAILY_TRANSFER_LIMIT
                   THEN result'[s] = DailyLimitExceeded
                   ELSE IF source_account[s].current_balance < amount[s]
                   THEN result'[s] = InsufficientFunds
                   ELSE pc'[s] = "apply"]_vars

\* the request of a customer who does not own n1, to a missing target, was
\* answered AccountNotFound, and on the ledger with 100.00 in the account
\* and 49999.00 transferred today a request was answered DailyLimitExceeded
C17_Witness ==
    \E s, t \in Sessions :
        /\ pc[s] = "done" /\ result[s] = TargetNotFound
        /\ pc[t] = "done" /\ result[t] = DailyLimitExceeded
        /\ current_balance["a1"] = 10000
        /\ TrackedAmount("a1", 1) = 4999900

\* ---- C18
\* the answers given before anything is mutated
Rejections == {InvalidAmount, SourceNotFound, TargetNotFound, Forbidden,
               DailyLimitExceeded, InsufficientFunds}

\* C18: the step in which a request is answered with InvalidAmount,
\* AccountNotFound, Forbidden, DailyLimitExceeded or InsufficientFunds
\* changes nothing in the committed state, and no step leaves a tracker row
\* with nothing transacted in it (the row inserted for a first attempt of the
\* day is committed only together with a transfer).
C18_RejectionChangesNothing ==
    [][/\ \A s \in Sessions :
             (/\ \/ pc[s] \in TransferPlaces
                 \/ pc[s] \in {"idle", "done"} /\ ncalls' # ncalls
              /\ pc'[s] = "done"
              /\ result'[s] \in Rejections)
             => dbVars' = dbVars
       /\ \A k \in trackers' : k.transacted_amount > 0]_vars

\* a first attempt of the day was rejected for insufficient funds and no
\* tracker row exists
C18_Witness ==
    /\ \E s \in Sessions : pc[s] = "done" /\ result[s] = InsufficientFunds
    /\ trackers = {}
    /\ transactions = {}

\* ---- C19
\* the response of line 128
InternalError == Response(500, "An error occurred during transaction processing.")

\* where a request is while its checks run (Received), and the places after
\* them: "apply" (Validated, about to be Applied and committed),
\* "record_failed" (CommitFailed), "done" (Committed, Rejected or Recorded)
Validating == {"lookup_target", "get_tracker", "flush_tracker"}

\* C19: an attempt moves only along Received -> Validated -> Applied ->
\* Committed(Success), Received -> Rejected(reason), or Applied ->
\* CommitFailed -> Recorded(Failed): while its checks run nothing committed
\* changes and it can end only with a rejection; once validated it either
\* commits its Success row and returns that row's id, or commits nothing and
\* goes on to record the failure and answer InternalError; and an attempt
\* that has ended moves no more (its slot changes only by a new request).
C19_AttemptPaths ==
    [][\A s \in Sessions :
          /\ (pc[s] \in Validating /\ pc'[s] # pc[s])
                => /\ dbVars' = dbVars
                   /\ pc'[s] \in Validating \cup {"apply", "done"}
                   /\ pc'[s] = "done" => result'[s] \in Rejections
          /\ (pc[s] = "apply" /\ pc'[s] # "apply")
                => \/ /\ pc'[s] = "done"
                      /\ result'[s].status = 201
                      /\ \E r \in transactions' \ transactions :
                            /\ r.transaction_id = result'[s].transaction_id
                            /\ r.status = "Success"
                   \/ /\ pc'[s] = "record_failed"
                      /\ dbVars' = dbVars
          /\ (pc[s] = "record_failed" /\ pc'[s] # "record_failed")
                => /\ pc'[s] = "done"
                   /\ result'[s] = InternalError
                   /\ current_balance' = current_balance
                   /\ trackers' = trackers
          /\ (pc[s] = "done" /\ pc'[s] # "done") => ncalls' = ncalls + 1]_vars

\* ---- C20
\* the steps of the handler that serves the request of session s: the
\* handler runs on, and the database answers every statement that does not
\* wait for another session
Serve(s) ==
    \/ LookupTarget(s)
    \/ \E now \in {today} : GetDailyTracker(s, now)
    \/ FlushTracker(s)
    \/ \E outcome \in TransferOutcomes : ApplyTransfer(s, outcome)
    \/ \E ok \in CommitOutcomes, now \in {today} : RecordFailed(s, ok, now)
    \/ LoanAccount(s)
    \/ \E ok \in CommitOutcomes : LoanCommit(s, ok)

SpecFair == Spec /\ \A s \in Sessions : WF_vars(Serve(s))

\* what the controller answers when _get_daily_tracker raises (lines 42-44):
\* an HTTP 500 like InternalError, with another detail
UnexpectedError == Response(500, "An unexpected error occurred during the transfer.")

\* the session's caller holds one outcome of the taxonomy
HasOutcome(s) ==
    /\ pc[s] = "done"
    /\ \/ result[s].status = 201 /\ result[s].transaction_id > 0
       \/ result[s] \in Rejections
       \/ result[s] \in {InternalError, UnexpectedError}

\* C20: every transfer under way, whatever the other session does,
\* eventually returns to its caller with one outcome: a transaction id, a
\* rejection, or an HTTP 500.
C20_EveryCallReturns ==
    \A s \in Sessions : (pc[s] \in TransferPlaces) ~> HasOutcome(s)

\* two first transfers of the day from one account raced for the tracker
\* row: one holds a transaction id, the other an HTTP 500
C20_Witness ==
    \E s, t \in Sessions :
        /\ pc[s] = "done" /\ result[s].status = 201
        /\ pc[t] = "done" /\ result[t] = UnexpectedError

\* --------------------------------------------- transfers across midnight
\* the owner's transfers of 10000.00, 25000.00 and 30000.00 from n1 to n2,
\* of 25000.00 from n2 to n1, and of 25000.00 from n1 to n1
RolloverRequests ==
    [customer_id : {"c1"}, source_account_number : {"n1"},
     target_account_number : {"n2"},
     amount : {10000000, 25000000, 30000000}]
    \cup {[customer_id |-> "c2", source_account_number |-> "n2",
           target_account_number |-> "n1", amount |-> 25000000],
          [customer_id |-> "c1", source_account_number |-> "n1",
           target_account_number |-> "n1", amount |-> 25000000]}

InitRollover ==
    /\ FreshLedger \/ UsedLedger
    /\ Sessionless

\* every clock reading may be a later date than the one before
NextRollover ==
    \/ \E s \in Sessions, r \in RolloverRequests, now \in ClockReadings :
          transfer_funds(s, r.customer_id, r.source_account_number,
                         r.target_account_number, r.amount, now)
    \/ \E s \in Sessions : LookupTarget(s)
    \/ \E s \in Sessions, now \in ClockReadings : GetDailyTracker(s, now)
    \/ \E s \in Sessions : FlushTracker(s)
    \/ \E s \in Sessions : ApplyTransfer(s, "committed")

SpecRollover == InitRollover /\ [][NextRollover]_vars

\* the step in which the transfer of session s commits
Commits(s) ==
    /\ pc[s] = "apply"
    /\ pc'[s] = "done"
    /\ transactions' # transactions

\* ---- C21
\* C21: the step in which a transfer commits leaves unchanged the balance of
\* every account other than its source and target, every tracker row other
\* than the one of (source, date read at line 23), every Transaction and
\* audit row there was, and every loan; it adds exactly one Transaction row
\* and one audit row.
C21_TransferTouchesOnlyItsRows ==
    [][\A s \in Sessions :
          Commits(s)
          => LET src == source_account[s].account_id
                 tgt == target_account[s].account_id
                 d == tracker[s].transaction_date
             IN /\ \A a \in AccountIds \ {src, tgt} :
                      current_balance'[a] = current_balance[a]
                /\ {k \in trackers' : ~(k.account_id = src /\ k.transaction_date = d)}
                     = {k \in trackers : ~(k.account_id = src /\ k.transaction_date = d)}
                /\ transactions \subseteq transactions'
                /\ Cardinality(transactions' \ transactions) = 1
                /\ audit_log \subseteq audit_log'
                /\ Cardinality(audit_log' \ audit_log) = 1
                /\ loan_status' = loan_status]_vars

\* account a1 has transferred on two dates and holds a tracker row of each
C21_Witness ==
    /\ TrackedAmount("a1", 1) > 0
    /\ TrackedAmount("a1", 2) > 0
    /\ \E s \in Returned : TRUE

\* ---- C22
\* C22: the committed transacted_amount of a tracker row never decreases:
\* in every step, a row of (account, date) that was committed is still there
\* with an amount at least as large.
C22_TrackerNeverDecreases ==
    [][\A k \in trackers :
          \E k2 \in trackers' :
              /\ k2.account_id = k.account_id
              /\ k2.transaction_date = k.transaction_date
              /\ k2.transacted_amount >= k.transacted_amount]_vars

\* ------------------------------------------------- balance enquiries
\* enquiries by either customer about n1 and about a number no account has
BalanceRequests ==
    [customer_id : Customers, account_number : {"n1", "n9"}]

InitBalance ==
    /\ FreshLedger \/ UsedLedger
    /\ Sessionless

\* balance enquiries among the owner's transfers, across midnight
NextBalance ==
    \/ \E s \in Sessions, r \in BalanceRequests :
          get_balance(s, r.customer_id, r.account_number)
    \/ \E s \in Sessions : BalanceAccount(s)
    \/ \E s \in Sessions, now \in ClockReadings : BalanceUsage(s, now)
    \/ \E s \in Sessions, r \in RolloverRequests, now \in ClockReadings :
          transfer_funds(s, r.customer_id, r.source_account_number,
                         r.target_account_number, r.amount, now)
    \/ \E s \in Sessions : LookupTarget(s)
    \/ \E s \in Sessions, now \in ClockReadings : GetDailyTracker(s, now)
    \/ \E s \in Sessions : FlushTracker(s)
    \/ \E s \in Sessions : ApplyTransfer(s, "committed")

SpecBalance == InitBalance /\ [][NextBalance]_vars

\* the accounts that have the number session s asks about
AccountsNumbered(s) ==
    {a \in AccountIds : account_number_of(a) = req[s].account_number}

\* ---- C23
\* C23: the account lookup of a balance enquiry fails with a not-found error
\* when no account has the number, and with a different error, a 403, when
\* an account has the number and belongs to another customer.
C23_BalanceErrorsDistinct ==
    [][\A s \in Sessions :
          (pc[s] = "balance_account" /\ pc'[s] # "balance_account")
          => /\ AccountsNumbered(s) = {}
                => /\ pc'[s] = "done"
                   /\ result'[s].status = 404
             /\ (/\ AccountsNumbered(s) # {}
                 /\ \A a \in AccountsNumbered(s) :
                       customer_id_of(a) # req[s].customer_id)
                => /\ pc'[s] = "done"
                   /\ result'[s].status = 403
                   /\ result'[s] # BalanceNotFound]_vars

\* the steps of a balance enquiry of session s
BalanceStep(s) ==
    \/ pc[s] \notin {"balance_account", "balance_usage"}
          /\ pc'[s] = "balance_account"
    \/ pc[s] \in {"balance_account", "balance_usage"} /\ pc'[s] # pc[s]

\* ---- C24
\* C24: no step of a balance enquiry changes a balance, a tracker row, a
\* Transaction row, an audit row or a loan (so none creates a tracker row),
\* and the enquiry returns as daily usage the transacted_amount of the
\* committed tracker row of (account, date read at line 143), or 0 when
\* there is none.
C24_BalanceReadsOnly ==
    [][\A s \in Sessions :
          BalanceStep(s)
          => /\ UNCHANGED dbVars
             /\ pc[s] = "balance_usage"
                => /\ pc'[s] = "done"
                   /\ result'[s].status = 200
                   /\ LET rows == {k \in trackers :
                                     /\ k.account_id = account[s].account_id
                                     /\ k.transaction_date = today'}
                      IN /\ rows = {}
                            => result'[s].daily_transacted_amount_today = 0
                         /\ \A k \in rows :
                               result'[s].daily_transacted_amount_today
                                 = k.transacted_amount]_vars

\* an enquiry made the day after a transfer has returned a usage of 0
C24_Witness ==
    /\ today = 2
    /\ TrackedAmount("a1", 1) > 0
    /\ TrackerRows("a1", 2) = {}
    /\ \E s \in Sessions :
          /\ pc[s] = "done"
          /\ result[s].status = 200
          /\ result[s].detail = "balance"
          /\ result[s].daily_transacted_amount_today = 0

\* ---- C25
\* C25: the limit decision of a transfer counts only the committed amount of
\* the tracker row of (source account, date read at line 23), which is zero
\* when that date has no row whatever earlier dates hold: the transfer is
\* refused for the limit exactly when that amount plus its own exceeds
\* DAILY_TRANSFER_LIMIT; and the commit of a transfer keeps every tracker row
\* of another date as it was.
C25_LimitCountsTodayOnly ==
    [][\A s \in Sessions :
          /\ Decides(s)
             => LET d == IF pc[s] = "get_tracker" THEN today'
                         ELSE tracker[s].transaction_date
                    used == TrackedAmount(source_account[s].account_id, d)
                IN (pc'[s] = "done" /\ result'[s] = DailyLimitExceeded)
                   <=> used + amount[s] > DAILY_TRANSFER_LIMIT
          /\ Commits(s)
             => \A k \in trackers :
                   k.transaction_date # tracker[s].transaction_date
                   => k \in trackers']_vars

\* 25000.00 was transferred from a1 on date 1, and 30000.00 on date 2
C25_Witness ==
    /\ TrackedAmount("a1", 1) = 2500000
    /\ TrackedAmount("a1", 2) = 3000000

\* ---- C26
\* C26: a transfer that has passed the checks on a ledger it read after an
\* identical transfer (same source, target and amount) had committed is
\* carried out again: it returns 201 with an id no earlier row has, adds a
\* Success row of that id, and debits the source once more.
C26_NoDeduplication ==
    [][\A s \in Sessions :
          (/\ pc[s] = "apply"
           /\ pc'[s] # "apply"
           /\ source_account[s].account_id # target_account[s].account_id
           /\ source_account[s].current_balance
                = current_balance[source_account[s].account_id]
           /\ \E r \in transactions :
                 /\ r.status = "Success"
                 /\ r.source_account_id = source_account[s].account_id
                 /\ r.target_account_id = target_account[s].account_id
                 /\ r.amount = amount[s])
          => /\ pc'[s] = "done"
             /\ result'[s].status = 201
             /\ \A r \in transactions :
                   r.transaction_id # result'[s].transaction_id
             /\ \E r \in transactions' \ transactions :
                   /\ r.transaction_id = result'[s].transaction_id
                   /\ r.status = "Success"
                   /\ r.source_account_id = source_account[s].account_id
                   /\ r.target_account_id = target_account[s].account_id
                   /\ r.amount = amount[s]
             /\ current_balance'[source_account[s].account_id]
                  = current_balance[source_account[s].account_id] - amount[s]]_vars

\* two Success rows of 25000.00 from a1 to a2, and a1 debited twice
C26_Witness ==
    /\ \E r1, r2 \in transactions :
          /\ r1.transaction_id # r2.transaction_id
          /\ r1.status = "Success" /\ r2.status = "Success"
          /\ r1.source_account_id = "a1" /\ r2.source_account_id = "a1"
          /\ r1.target_account_id = "a2" /\ r2.target_account_id = "a2"
          /\ r1.amount = 2500000 /\ r2.amount = 2500000
    /\ current_balance["a1"] = InitialBalance("a1") - 5000000

\* ---- C27
\* C27: the committed tracker rows never hold two rows of one (account,
\* date); and the transfer whose INSERT of a first-of-day row meets the row
\* another transfer has committed ends with a 500 and changes no balance and
\* no tracker row.
C27_OneTrackerPerDay ==
    /\ [](\A a \in AccountIds, d \in Dates : Cardinality(TrackerRows(a, d)) <= 1)
    /\ [][\A s \in Sessions :
             (/\ pc[s] = "flush_tracker"
              /\ pc'[s] = "done"
              /\ result'[s] = UnexpectedError)
             => /\ current_balance' = current_balance
                /\ trackers' = trackers]_vars

\* of two first-of-day transfers from a1, one has committed the day's row and
\* the other has ended with the 500
C27_Witness ==
    /\ \E d \in Dates : Cardinality(TrackerRows("a1", d)) = 1
    /\ Cardinality(transactions) = 1
    /\ \E s \in Sessions :
          pc[s] = "done" /\ result[s] = UnexpectedError

\* ---- C28
\* C28: the commit of a transfer whose source and target are one account,
\* made on the tracker amount it read, leaves every balance as it was, sets
\* the tracker row of (account, date) to that amount plus the transfer's,
\* and adds a Success row whose source id and target id are that account.
C28_SelfTransfer ==
    [][\A s \in Sessions :
          (/\ Commits(s)
           /\ source_account[s].account_id = target_account[s].account_id
           /\ tracker[s].transacted_amount
                = TrackedAmount(tracker[s].account_id, tracker[s].transaction_date))
          => /\ current_balance' = current_balance
             /\ \E k \in trackers' :
                   /\ k.account_id = source_account[s].account_id
                   /\ k.transaction_date = tracker[s].transaction_date
                   /\ k.transacted_amount
                        = TrackedAmount(tracker[s].account_id,
                                        tracker[s].transaction_date) + amount[s]
             /\ \E r \in transactions' \ transactions :
                   /\ r.status = "Success"
                   /\ r.source_account_id = source_account[s].account_id
                   /\ r.target_account_id = source_account[s].account_id
                   /\ r.amount = amount[s]]_vars

\* a1 has transferred 25000.00 to itself: its balance is what it was, its
\* tracker holds 25000.00
C28_Witness ==
    /\ \E r \in transactions :
          /\ r.status = "Success"
          /\ r.source_account_id = "a1"
          /\ r.target_account_id = "a1"
    /\ Cardinality(transactions) = 1
    /\ current_balance["a1"] = InitialBalance("a1")
    /\ \E d \in Dates : TrackedAmount("a1", d) = 2500000

\* ---- C29
\* C29: a review succeeds only on a loan that is Pending when it commits (so
\* at most one review of a loan succeeds), no step sets a loan that has left
\* Pending back to Pending, and an account of the loan's customer is credited
\* by a review only in the step that takes the loan from Pending to
\* Approved, and then by loan_amount.
C29_LoanDisbursedOnce ==
    [][/\ \A s \in Sessions :
            (/\ pc[s] = "loan_commit"
             /\ pc'[s] = "done"
             /\ result'[s].status = 200)
            => /\ loan_status[loan[s].loan_id] = "Pending"
               /\ \A a \in AccountIds :
                     current_balance'[a] # current_balance[a]
                     => /\ loan_status'[loan[s].loan_id] = "Approved"
                        /\ current_balance'[a]
                             = current_balance[a] + loan_amount_of(loan[s].loan_id)
       /\ \A l \in LoanIds :
            loan_status[l] # "Pending" => loan_status'[l] # "Pending"]_vars

\* ------------------------------------------- authenticated enquiries
\* requests that present a token, among balance enquiries
NextAuth ==
    \/ \E s \in Sessions, token \in Tokens :
          get_authenticated_user_and_role(s, token)
    \/ \E s \in Sessions : ValidateUser(s)
    \/ \E s \in Sessions, r \in BalanceRequests :
          get_balance(s, r.customer_id, r.account_number)
    \/ \E s \in Sessions : BalanceAccount(s)
    \/ \E s \in Sessions, now \in ClockReadings : BalanceUsage(s, now)

SpecAuth == InitBalance /\ [][NextAuth]_vars

\* ---- C30
\* C30: the validation of a signed token's user returns an identity exactly
\* when the User table has the token's user with the token's role, and fails
\* with the 401 credentials error otherwise.
C30_StaleTokenIsUnauthorized ==
    [][\A s \in Sessions :
          (pc[s] = "validate_user" /\ pc'[s] = "done")
          => LET known == /\ req[s].user_id \in UserIds
                          /\ user_role_of(req[s].user_id) = req[s].role
             IN /\ known => result'[s] = TokenData(req[s].user_id, req[s].role)
                /\ ~known => result'[s] = CredentialsError]_vars

====
